---- MODULE Spec2Model ----
(***************************************************************************)
(* A model of the dynamic optical simulation (DOS) components: the modal   *)
(* state space engine (DiscreteModalSolver), a controller adapter (the M1  *)
(* hardpoint load cells Controller) and the wind load source (WindLoading),*)
(* each driven through the DOS protocol inputs / step / outputs.           *)
(*                                                                         *)
(* A behaviour instantiates one component (variable component) and calls   *)
(* its methods in any order.  f64 values are modelled by integers.         *)
(***************************************************************************)
EXTENDS Integers, Sequences, FiniteSets, TLC

VARIABLES
    component,     \* the component the run exercises
    fem_ss,        \* DiscreteModalSolver<Exponential>
    ctrl,          \* m1::hp_load_cells::Controller
    wind_loading,  \* WindLoading
    last_op,       \* name of the last method called
    arg,           \* the envelopes passed to the last inputs call
    result,        \* value returned by the last call
    n_steps,       \* number of steps of the engine so far
    n_calls,       \* number of WindLoading::outputs calls so far
    fed,           \* what the inputs calls so far carried: "nothing" (no call),
                   \* "zeros" (all-zero payloads only) or "nonzero"
    twice,         \* the last two calls were both outputs calls
    dss,           \* DiscreteStateSpace, the builder of the engine
    built,         \* what DiscreteStateSpace::build returned ("none": not called)
    drv,           \* the feedback loop of a driver (bin/)
    wl,            \* WindLoads, the builder of the wind load source
    telltale       \* TellTale, the data logger

vars == <<component, fem_ss, ctrl, wind_loading, last_op, arg, result,
          n_steps, n_calls, fed, twice, dss, built, drv, wl, telltale>>

\* the variables of the runs of the components
run_vars == <<fem_ss, ctrl, wind_loading, last_op, arg, result,
              n_steps, n_calls, fed, twice>>

(***************************************************************************)
(* Bounds                                                                  *)
(***************************************************************************)
\* cap on the number of steps of the engine in a run
MaxSteps == 2
\* cap on the number of samples of a wind load stream
MaxSamples == 3

\* cap on the number of samples a driver loop runs for
MaxLoop == 12

\* cap on the number of envelopes logged by a TellTale
MaxTales == 3
\* cap on the number of tags in a list selected at the builder
MaxSelected == 2

\* the f64 values payloads are drawn from
Values == {0, 1}

(***************************************************************************)
(* Generic helpers                                                         *)
(***************************************************************************)
Min(a, b) == IF a <= b THEN a ELSE b

Zeros(n) == [i \in 1..n |-> 0]

AllZero(s) == \A i \in 1..Len(s) : s[i] = 0

RECURSIVE Flatten(_)
Flatten(ss) == IF ss = <<>> THEN <<>> ELSE Head(ss) \o Flatten(Tail(ss))

RECURSIVE SumSeq(_)
SumSeq(s) == IF s = <<>> THEN 0 ELSE Head(s) + SumSeq(Tail(s))

\* element-wise sum over the zip of two vectors (length of the first kept)
AddInto(a, y) == [i \in 1..Len(a) |-> IF i <= Len(y) THEN a[i] + y[i] ELSE a[i]]

\* sequences over S of length 0..n
SeqsUpTo(S, n) == UNION {[1..k -> S] : k \in 0..n}

\* vec![v; n]
Vec(v, n) == [i \in 1..n |-> v]

\* the payloads sent to a port of width w: vec![v; w] for v in Values, and
\* one payload that is a value short
Payloads(w) == {Vec(v, w) : v \in Values} \cup {Vec(1, w - 1)}

\* a payload that is a value long
LongPayload(w) == Vec(1, w + 1)

(***************************************************************************)
(* IO envelopes (io.rs): a tag with an optional payload                    *)
(***************************************************************************)
\* jar::X::new(): the variant with data None
IO_new(tag) == [tag |-> tag, some |-> FALSE, data |-> <<>>]

\* jar::X::with(data): the variant with data Some(data)
IO_with(tag, data) == [tag |-> tag, some |-> TRUE, data |-> data]

\* From<(&IO<()>, Vec<f64>)> for IO<Vec<f64>>
IO_from_tag_vec(t, v) == [tag |-> t.tag, some |-> TRUE, data |-> v]

\* values returned by the methods
Ok == [kind |-> "ok", envs |-> <<>>]
Err == [kind |-> "err", envs |-> <<>>]
None == [kind |-> "none", envs |-> <<>>]
Some(envs) == [kind |-> "some", envs |-> envs]
Panic == [kind |-> "panic", envs |-> <<>>]
NoCall == [kind |-> "nocall", envs |-> <<>>]

(***************************************************************************)
(* The FEM the engine is built from: two inputs, two outputs, two modes.   *)
(* The input and output lists hold Option entries (some is FALSE for None: *)
(* the entry of that name is absent); an entry holds a list of fem::IO     *)
(* rows (On with indices, or Off); the matrices are row-major.             *)
(***************************************************************************)
fem ==
    [inputs |-> <<
        [some |-> TRUE, name |-> "OSSM1Lcl6F",
         io |-> <<[on |-> TRUE, indices |-> <<1>>],
                  [on |-> FALSE, indices |-> <<>>],
                  [on |-> TRUE, indices |-> <<2>>]>>],
        [some |-> FALSE, name |-> "OSSElDriveF", io |-> <<>>],
        [some |-> TRUE, name |-> "OSSAzDriveF",
         io |-> <<[on |-> TRUE, indices |-> <<3>>]>>] >>,
     outputs |-> <<
        [some |-> TRUE, name |-> "OSSM1Lcl",
         io |-> <<[on |-> TRUE, indices |-> <<1>>]>>],
        [some |-> FALSE, name |-> "OSSElDriveD", io |-> <<>>],
        [some |-> TRUE, name |-> "OSSAzDriveD",
         io |-> <<[on |-> TRUE, indices |-> <<2>>],
                  [on |-> TRUE, indices |-> <<3>>]>>] >>,
     n_modes |-> 2,
     \* Hz
     eigen_frequencies |-> <<1, 2>>,
     proportional_damping_vec |-> <<1, 1>>,
     \* n_modes x n_inputs
     inputs_to_modal_forces |-> << 1, 0, 0,
                                   0, 0, 1 >>,
     \* n_outputs x n_modes
     modal_disp_to_outputs |-> << 1, 0,
                                  0, 1,
                                  1, 1 >> ]

\* the tags selected at build time
dos_inputs == <<IO_new("OSSM1Lcl6F"), IO_new("OSSAzDriveF")>>
dos_outputs == <<IO_new("OSSM1Lcl"), IO_new("OSSAzDriveD")>>

\* the indices of the On entries of a FEM input / output
RECURSIVE OnIndices(_)
OnIndices(ios) ==
    IF ios = <<>> THEN <<>>
    ELSE (IF Head(ios).on THEN Head(ios).indices ELSE <<>>) \o OnIndices(Tail(ios))

\* a search that also accepts the entries that are None
FirstMatch_any(entries, tag) ==
    LET hits == {k \in 1..Len(entries) : entries[k].name = tag.tag}
    IN  IF hits = {} THEN 0 ELSE CHOOSE k \in hits : \A j \in hits : k <= j

\* find_map over the FEM entries: the first entry the tag matches
FirstMatch(entries, tag) ==
    LET hits == {k \in 1..Len(entries) : entries[k].some /\ entries[k].name = tag.tag}
    IN  IF hits = {} THEN 0 ELSE CHOOSE k \in hits : \A j \in hits : k <= j

\* the indices of the entry the tag matches, last first
TagIndices_reversed(entries, tag) ==
    LET x == OnIndices(entries[FirstMatch(entries, tag)].io)
    IN  [j \in 1..Len(x) |-> x[Len(x) + 1 - j]]

\* the scalar indices of one selected tag
TagIndices(entries, tag) == OnIndices(entries[FirstMatch(entries, tag)].io)

\* FEM::keep_inputs / keep_outputs: the rows of the entries that are not kept
\* are switched off
keep(entries, tags) ==
    [k \in 1..Len(entries) |->
        IF entries[k].some /\ \E t \in 1..Len(tags) : tags[t].tag = entries[k].name
        THEN entries[k]
        ELSE [entries[k] EXCEPT
                !.io = [j \in 1..Len(entries[k].io) |->
                          [entries[k].io[j] EXCEPT !.on = FALSE]]]]

\* select_fem_io: keep the inputs and outputs some selected tag matches
select_fem_io(f, v_u, v_y) ==
    [f EXCEPT !.inputs = keep(f.inputs, v_u), !.outputs = keep(f.outputs, v_y)]

\* FEM::n_inputs / n_outputs: the number of indices of the rows that are on
n_inputs(f) == Len(Flatten([k \in 1..Len(f.inputs) |-> OnIndices(f.inputs[k].io)]))
n_outputs(f) == Len(Flatten([k \in 1..Len(f.outputs) |-> OnIndices(f.outputs[k].io)]))

\* the first selected tag that matches no entry (0 when every tag matches)
FirstUnmatched(entries, tags) ==
    LET miss == {t \in 1..Len(tags) : FirstMatch(entries, tags[t]) = 0}
    IN  IF miss = {} THEN 0 ELSE CHOOSE t \in miss : \A j \in miss : t <= j

\* io2modes: for every mode, the entries of its row at the selected indices
io2modes(f, tags) ==
    LET indices == Flatten([t \in 1..Len(tags) |-> TagIndices(f.inputs, tags[t])])
        n == Len(f.inputs_to_modal_forces) \div f.n_modes
    IN  [k \in 1..f.n_modes |->
            [j \in 1..Len(indices) |->
                f.inputs_to_modal_forces[(k - 1) * n + indices[j]]]]

\* modes2io: for every selected tag, the rows of the output matrix at its indices
modes2io(f, tags) ==
    LET n == f.n_modes
        q(i) == SubSeq(f.modal_disp_to_outputs, (i - 1) * n + 1, i * n)
    IN  [t \in 1..Len(tags) |->
            LET i == TagIndices(f.outputs, tags[t])
            IN  Flatten([j \in 1..Len(i) |-> q(i[j])])]

(***************************************************************************)
(* Per-mode solver (Exponential): two state scalars, input row b, output   *)
(* column c.  The transition matrix and input gain stand for exp(A tau)    *)
(* and its integral.                                                       *)
(***************************************************************************)
Phi == << <<1, 1>>, <<-1, 0>> >>
Gamma == <<1, 1>>

from_second_order(b, c) == [b |-> b, c |-> c, x |-> <<0, 0>>]

\* b . u over the zip of b and u
RECURSIVE Dot(_, _)
Dot(b, u) ==
    IF b = <<>> \/ u = <<>> THEN 0
    ELSE Head(b) * Head(u) + Dot(Tail(b), Tail(u))

\* solve: y = c * x0, then advance (x0, x1) with the force b . u
solve(m, u) ==
    LET f == Dot(m.b, u)
        x0 == m.x[1]
        x1 == m.x[2]
    IN  [m |-> [m EXCEPT !.x = << Phi[1][1] * x0 + Phi[1][2] * x1 + Gamma[1] * f,
                                  Phi[2][1] * x0 + Phi[2][2] * x1 + Gamma[2] * f >>],
         y |-> [i \in 1..Len(m.c) |-> m.c[i] * x0]]

(***************************************************************************)
(* DiscreteStateSpace::build                                               *)
(***************************************************************************)
\* Option<f64> and Option<Vec<_>>
NoF64 == [some |-> FALSE, v |-> 0]
NoVec == [some |-> FALSE, v |-> <<>>]
Given(x) == [some |-> TRUE, v |-> x]

\* a FEM record without content stands in the fem field for None
NoFEM ==
    [some |-> FALSE,
     v |-> [inputs |-> <<>>, outputs |-> <<>>, n_modes |-> 0,
            eigen_frequencies |-> <<>>, proportional_damping_vec |-> <<>>,
            inputs_to_modal_forces |-> <<>>, modal_disp_to_outputs |-> <<>>]]

\* #[derive(Default)]
DiscreteStateSpace_default ==
    [sampling |-> NoF64, fem |-> NoFEM, u |-> NoVec, y |-> NoVec, zeta |-> NoF64,
     eigen_frequencies |-> NoVec, max_eigen_frequency |-> NoF64,
     hankel_singular_values_threshold |-> NoF64]

\* From<fem::FEM>
DiscreteStateSpace_from(f) == [DiscreteStateSpace_default EXCEPT !.fem = Given(f)]

DiscreteStateSpace_sampling(self, sampling) == [self EXCEPT !.sampling = Given(sampling)]

DiscreteStateSpace_proportional_damping(self, zeta) == [self EXCEPT !.zeta = Given(zeta)]

DiscreteStateSpace_eigen_frequencies(self, eigen_frequencies) ==
    [self EXCEPT !.eigen_frequencies = Given(eigen_frequencies)]

DiscreteStateSpace_max_eigen_frequency(self, max_eigen_frequency) ==
    [self EXCEPT !.max_eigen_frequency = Given(max_eigen_frequency)]

\* inputs / outputs: the first call sets the list, a later call appends to it
DiscreteStateSpace_inputs(self, v_u) ==
    [self EXCEPT !.u = IF self.u.some THEN Given(self.u.v \o v_u) ELSE Given(v_u)]

DiscreteStateSpace_outputs(self, v_y) ==
    [self EXCEPT !.y = IF self.y.some THEN Given(self.y.v \o v_y) ELSE Given(v_y)]

\* Angular frequencies are counted in units of pi / 180 rad/s.
\* FEM::eigen_frequencies_to_radians: 2 pi f for every eigenfrequency f in Hz
eigen_frequencies_to_radians(f) ==
    [k \in 1..Len(f.eigen_frequencies) |-> 360 * f.eigen_frequencies[k]]

\* f64::to_radians: v pi / 180
to_radians(v) == v

\* eigen_frequencies.into_iter().for_each(|(i, v)| w[i] = v.to_radians())
RECURSIVE apply_eigen_frequencies(_, _)
apply_eigen_frequencies(w, l) ==
    IF l = <<>> THEN w
    ELSE apply_eigen_frequencies([w EXCEPT ![Head(l).i + 1] = to_radians(Head(l).v)],
                                 Tail(l))

\* a test that lets pass the eigenfrequencies up to 1 Hz whatever the cutoff
within_cutoff_or_first(ef, max_ef) == ef <= max_ef \/ ef <= 1

\* ef <= &max_ef
within_cutoff(ef, max_ef) == ef <= max_ef

\* a count that leaves out the eigenfrequencies equal to the cutoff
n_modes_below(f, max_ef) ==
    Cardinality({k \in 1..Len(f.eigen_frequencies) : f.eigen_frequencies[k] < max_ef})

\* fold(0, |n, ef| if ef <= &max_ef { n + 1 } else { n })
n_modes_within(f, max_ef) ==
    Cardinality({k \in 1..Len(f.eigen_frequencies) :
                    within_cutoff(f.eigen_frequencies[k], max_ef)})

\* the sum of the squares of the entries
norm2(x) == SumSeq([i \in 1..Len(x) |-> x[i] * x[i]])

\* hankel_singular_value: 0.25 |b| |c| / (w z), kept as the square n2 of
\* |b| |c| and the product d = w z
hankel_singular_value(w, z, b, c) == [n2 |-> norm2(b) * norm2(c), d |-> w * z]

\* a comparison that also keeps a mode whose value equals the threshold
hsv_gt_or_equal(hsv, hsv_t) == (hsv.d * hsv_t) * (hsv.d * hsv_t) <= 360 * 360 * hsv.n2

\* hsv > hsv_t, for a threshold counted in units of 1 / 1440; a value 0 / 0
\* (NaN) is not greater than any threshold
hsv_gt(hsv, hsv_t) == (hsv.d * hsv_t) * (hsv.d * hsv_t) < 360 * 360 * hsv.n2

\* #[derive(Default)]
DiscreteModalSolver_default ==
    [u |-> <<>>, u_tags |-> <<>>, y |-> <<>>, y_tags |-> <<>>, y_sizes |-> <<>>,
     state_space |-> <<>>]

\* a build that did not return an engine: kind is the variant of the error
\* (or "panic") and what its content
BuildFailed(kind, what) ==
    [kind |-> kind, what |-> what, engine |-> DiscreteModalSolver_default,
     w |-> <<>>, zeta |-> <<>>, n_modes |-> 0]

\* build: the engine, with the angular frequencies, the damping coefficients
\* and the number of modes it was made with
build(self) ==
    IF ~self.sampling.some THEN BuildFailed("MissingArguments", "sampling")
    ELSE IF ~self.fem.some THEN BuildFailed("MissingArguments", "FEM")
    ELSE IF ~self.u.some THEN BuildFailed("MissingArguments", "inputs")
    ELSE IF ~self.y.some THEN BuildFailed("MissingArguments", "outputs")
    ELSE
    LET v_u == self.u.v
        v_y == self.y.v
        f == select_fem_io(self.fem.v, v_u, v_y)
        bad_u == FirstUnmatched(f.inputs, v_u)
        bad_y == FirstUnmatched(f.outputs, v_y)
        l == self.eigen_frequencies.v
    IN  IF bad_u # 0 THEN BuildFailed("FemInputs", v_u[bad_u].tag)
        ELSE IF bad_y # 0 THEN BuildFailed("FemOutputs", v_y[bad_y].tag)
        ELSE IF \E j \in 1..Len(l) : l[j].i + 1 > f.n_modes THEN BuildFailed("panic", "")
        ELSE
        LET forces_2_modes == io2modes(f, v_u)
            fem_modes2io == modes2io(f, v_y)
            sizes == [t \in 1..Len(fem_modes2io) |-> Len(fem_modes2io[t]) \div f.n_modes]
            rows == Flatten(fem_modes2io)
            column(k) == [i \in 1..n_outputs(f) |-> rows[(i - 1) * f.n_modes + k]]
            w == apply_eigen_frequencies(eigen_frequencies_to_radians(f), l)
            n_modes == IF self.max_eigen_frequency.some
                       THEN n_modes_within(f, self.max_eigen_frequency.v)
                       ELSE f.n_modes
            zeta == IF self.zeta.some THEN Vec(self.zeta.v, n_modes)
                    ELSE f.proportional_damping_vec
            Kept(k) == \/ ~self.hankel_singular_values_threshold.some
                       \/ hsv_gt(hankel_singular_value(w[k], zeta[k], forces_2_modes[k],
                                                       column(k)),
                                 self.hankel_singular_values_threshold.v)
            modes == SelectSeq([k \in 1..n_modes |-> k], Kept)
        IN  [kind |-> "ok", what |-> "",
             engine |-> [u |-> Zeros(n_inputs(f)),
                         u_tags |-> v_u,
                         y |-> Zeros(n_outputs(f)),
                         y_tags |-> v_y,
                         y_sizes |-> sizes,
                         state_space |-> [j \in 1..Len(modes) |->
                                            from_second_order(forces_2_modes[modes[j]],
                                                              column(modes[j]))]],
             w |-> w, zeta |-> zeta, n_modes |-> n_modes]

\* the builder of the engine the engine runs start from
EngineBuilder ==
    DiscreteStateSpace_outputs(
        DiscreteStateSpace_inputs(
            DiscreteStateSpace_sampling(DiscreteStateSpace_from(fem), 1),
            dos_inputs),
        dos_outputs)

(***************************************************************************)
(* DiscreteModalSolver<Exponential>                                        *)
(***************************************************************************)
\* Iterator::next: y = sum over the modes of solve(u), every mode advanced
RECURSIVE fold_modes(_, _, _)
fold_modes(modes, u, a) ==
    IF modes = <<>> THEN a
    ELSE fold_modes(Tail(modes), u, AddInto(a, solve(Head(modes), u).y))

\* par_iter_mut().fold(..): the modes are split at cuts and each part is
\* folded, in order, into a vector of its own that starts from zeros
RECURSIVE fold_parts(_, _, _, _, _, _)
fold_parts(modes, u, n, cuts, start, i) ==
    IF i > Len(modes) THEN <<>>
    ELSE IF i = Len(modes) \/ i \in cuts
         THEN <<fold_modes(SubSeq(modes, start, i), u, Zeros(n))>>
              \o fold_parts(modes, u, n, cuts, i + 1, i + 1)
         ELSE fold_parts(modes, u, n, cuts, start, i + 1)

\* a closure that keeps the partial sum of the right and drops that of the left
reduce_op_right(a, b) == b

\* the closure of reduce: a += b, element by element
reduce_op(a, b) == AddInto(a, b)

\* .reduce(..): the partial sums are combined, from the left or from the
\* right, starting from zeros
RECURSIVE reduce_parts(_, _, _)
reduce_parts(parts, n, order) ==
    IF parts = <<>> THEN Zeros(n)
    ELSE IF order = "left"
         THEN reduce_op(reduce_parts(SubSeq(parts, 1, Len(parts) - 1), n, order),
                        parts[Len(parts)])
         ELSE reduce_op(Head(parts), reduce_parts(Tail(parts), n, order))

\* the ways the pool can run one step: where the modes are split, and the
\* order in which the partial sums are combined
Schedules(self) ==
    [cuts : SUBSET (1..(Len(self.state_space) - 1)), order : {"left", "right"}]

\* Iterator::next under a schedule of the pool
DiscreteModalSolver_next_par(self, schedule) ==
    LET n == Len(self.y)
    IN  [self |-> [self EXCEPT
                     !.y = reduce_parts(fold_parts(self.state_space, self.u, n,
                                                   schedule.cuts, 1, 1),
                                        n, schedule.order),
                     !.state_space = [k \in 1..Len(self.state_space) |->
                                         solve(self.state_space[k], self.u).m]],
         ret |-> Ok]

\* next with partial sums that start from ones instead of zeros
DiscreteModalSolver_next_ones(self) ==
    LET n == Len(self.y)
    IN  [self |-> [self EXCEPT
                     !.y = fold_modes(self.state_space, self.u, Vec(1, n)),
                     !.state_space = [k \in 1..Len(self.state_space) |->
                                         solve(self.state_space[k], self.u).m]],
         ret |-> Ok]

DiscreteModalSolver_next(self) ==
    LET n == Len(self.y)
    IN  [self |-> [self EXCEPT
                     !.y = fold_modes(self.state_space, self.u, Zeros(n)),
                     !.state_space = [k \in 1..Len(self.state_space) |->
                                         solve(self.state_space[k], self.u).m]],
         ret |-> Ok]

\* inputs that also advances the modes
DiscreteModalSolver_inputs_and_step(self, data) ==
    IF \E i \in 1..Len(data) : ~data[i].some
    THEN [self |-> self, ret |-> Err]
    ELSE DiscreteModalSolver_next(
            [self EXCEPT !.u = Flatten([i \in 1..Len(data) |-> data[i].data])])

\* DOS::inputs: the payloads of the envelopes, flattened in the order received;
\* an envelope without payload is an error and leaves u as it was
DiscreteModalSolver_inputs(self, data) ==
    IF \E i \in 1..Len(data) : ~data[i].some
    THEN [self |-> self, ret |-> Err]
    ELSE [self |-> [self EXCEPT !.u = Flatten([i \in 1..Len(data) |-> data[i].data])],
          ret |-> Ok]

\* DOS::outputs: one envelope per output tag, slicing y by y_sizes
RECURSIVE outputs_from(_, _, _, _)
outputs_from(tags, sizes, y, pos) ==
    IF tags = <<>> \/ sizes = <<>> THEN <<>>
    ELSE <<IO_from_tag_vec(Head(tags), SubSeq(y, pos + 1, pos + Head(sizes)))>>
         \o outputs_from(Tail(tags), Tail(sizes), y, pos + Head(sizes))

\* outputs whose slice position is never advanced
DiscreteModalSolver_outputs_stuck_pos(self) ==
    [self |-> self,
     ret |-> Some([i \in 1..Min(Len(self.y_tags), Len(self.y_sizes)) |->
                    IO_from_tag_vec(self.y_tags[i], SubSeq(self.y, 1, self.y_sizes[i]))])]

\* outputs that moves the values out of y, leaving zeros
DiscreteModalSolver_outputs_take(self) ==
    [self |-> [self EXCEPT !.y = Zeros(Len(self.y))],
     ret |-> Some(outputs_from(self.y_tags, self.y_sizes, self.y, 0))]

DiscreteModalSolver_outputs(self) ==
    [self |-> self, ret |-> Some(outputs_from(self.y_tags, self.y_sizes, self.y, 0))]

(***************************************************************************)
(* Inputs of the calls                                                     *)
(***************************************************************************)
\* widths of the declared input tags of the engine
InWidth(tag) == Len(TagIndices(fem.inputs, tag))

\* the envelopes of the calls: a declared tag without payload, or a declared
\* tag with a payload
EngineEnvelopes ==
    {dos_inputs[1]}
    \cup UNION {{IO_with(dos_inputs[i].tag, p) : p \in Payloads(InWidth(dos_inputs[i]))} :
                  i \in 1..Len(dos_inputs)}
\* a call carries at most as many envelopes as there are declared tags
EngineData == SeqsUpTo(EngineEnvelopes, Len(dos_inputs))
\* the in_step_out calls carry at most one envelope
EngineInStepOutData == SeqsUpTo(EngineEnvelopes, 1)

(***************************************************************************)
(* m1::hp_load_cells::Controller: input ports m1_hp_d and m1_hp_cmd,       *)
(* output port m1_hp_lc                                                    *)
(***************************************************************************)
Controller_new == [m1_hp_d |-> <<0, 0>>, m1_hp_cmd |-> <<0>>, m1_hp_lc |-> <<0>>]

Controller_inputs_tags == <<IO_new("OSSHardpointD"), IO_new("M1HPCmd")>>
Controller_outputs_tags == <<IO_new("M1HPLC")>>

\* for (k, v) in values.into_iter().enumerate() { port[k] = v; }
write_port(port, values) ==
    [k \in 1..Len(port) |-> IF k <= Len(values) THEN values[k] ELSE port[k]]

\* the fold of DOS::inputs over the envelopes: acc is the controller, the
\* count a and whether an index ran past the end of a port
RECURSIVE inputs_fold(_, _)
inputs_fold(data, acc) ==
    IF data = <<>> \/ acc.panicked THEN acc
    ELSE LET io == Head(data)
             port == IF io.tag = "OSSHardpointD" THEN "m1_hp_d"
                     ELSE IF io.tag = "M1HPCmd" THEN "m1_hp_cmd" ELSE "none"
         IN  IF io.some /\ port = "m1_hp_d"
             THEN inputs_fold(Tail(data),
                     [self |-> [acc.self EXCEPT
                                  !.m1_hp_d = write_port(acc.self.m1_hp_d, io.data)],
                      a |-> acc.a - 1,
                      panicked |-> Len(io.data) > Len(acc.self.m1_hp_d)])
             ELSE IF io.some /\ port = "m1_hp_cmd"
             THEN inputs_fold(Tail(data),
                     [self |-> [acc.self EXCEPT
                                  !.m1_hp_cmd = write_port(acc.self.m1_hp_cmd, io.data)],
                      a |-> acc.a - 1,
                      panicked |-> Len(io.data) > Len(acc.self.m1_hp_cmd)])
             ELSE inputs_fold(Tail(data), acc)

\* DOS::inputs: Ok when the count reaches 0 exactly
Controller_inputs(self, data) ==
    LET r == inputs_fold(data, [self |-> self, a |-> 2, panicked |-> FALSE])
    IN  [self |-> r.self,
         ret |-> IF r.panicked THEN Panic ELSE IF r.a = 0 THEN Ok ELSE Err]

\* DOS::outputs: the output port under its tag
Controller_outputs(self) ==
    [self |-> self, ret |-> Some(<<IO_with("M1HPLC", self.m1_hp_lc)>>)]

\* Iterator::next: one step of the wrapped filter, which writes the output port
Controller_next(self, lc) == [self |-> [self EXCEPT !.m1_hp_lc = lc], ret |-> Ok]

\* the envelopes of the calls carry an input tag of the controller or its
\* output tag, which is not one of its inputs
ControllerTags == {"OSSHardpointD", "M1HPCmd", "M1HPLC"}
ControllerEnvelopes ==
    {IO_new(t) : t \in ControllerTags}
    \cup {IO_with("OSSHardpointD", p) : p \in Payloads(Len(Controller_new.m1_hp_d))}
    \cup {IO_with("M1HPCmd", p) : p \in Payloads(Len(Controller_new.m1_hp_cmd))}
    \cup {IO_with("M1HPCmd", LongPayload(Len(Controller_new.m1_hp_cmd)))}
    \cup {IO_with("M1HPLC", Controller_new.m1_hp_lc)}
ControllerData == SeqsUpTo(ControllerEnvelopes, Len(Controller_inputs_tags))
\* the in_step_out calls carry nothing, or two envelopes with a payload
ControllerInStepOutData ==
    {<<>>} \cup
    [1..2 -> {IO_with("OSSHardpointD", Vec(1, Len(Controller_new.m1_hp_d))),
              IO_with("M1HPCmd", Vec(1, Len(Controller_new.m1_hp_cmd))),
              IO_with("M1HPCmd", LongPayload(Len(Controller_new.m1_hp_cmd)))}]

(***************************************************************************)
(* WindLoads / WindLoading (wind_loads.rs)                                 *)
(***************************************************************************)
\* sample k of a stream: a load vector that names the stream and the sample
Samples(id, n) == [k \in 1..n |-> <<10 * id + k>>]

\* the records: a stream per body, Some(loads) in the order of the file
WindRecords ==
    {[loads |-> <<[name |-> "OSSTopEnd6F", v |-> Samples(1, n1)],
                  [name |-> "OSSTruss6F", v |-> Samples(2, n2)]>>,
      n_sample |-> 0,
      tagged_loads |-> <<>>] : n1, n2 \in 0..MaxSamples}

\* IO::data: the whole stream as an iterator (v.clone().into_iter())
IO_data(io, load) == [items |-> load.v, pos |-> 0]

\* IO::ndata: the first n samples of the stream (v[..n].to_owned().into_iter())
IO_ndata(io, load, n) == [items |-> SubSeq(load.v, 1, n), pos |-> 0]

\* WindLoads::tagged_load: the first load the tag matches, cut to the
\* n_sample first samples if n_sample is set (0 stands for None)
tagged_load(self, io) ==
    LET hits == {k \in 1..Len(self.loads) : self.loads[k].name = io.tag}
        k == CHOOSE k \in hits : \A j \in hits : k <= j
    IN  IF self.n_sample > 0 THEN IO_ndata(io, self.loads[k], self.n_sample)
        ELSE IO_data(io, self.loads[k])

\* the length of the load the tag matches: v[..n] panics beyond it
load_len(self, tag) ==
    LET hits == {k \in 1..Len(self.loads) : self.loads[k].name = tag}
        k == CHOOSE k \in hits : \A j \in hits : k <= j
    IN  Len(self.loads[k].v)

\* WindLoads::truss / WindLoads::topend: push the tagged stream
WindLoads_select(self, tag) ==
    [self EXCEPT !.tagged_loads =
        Append(@, [tag |-> tag, some |-> TRUE, data |-> tagged_load(self, IO_new(tag))])]

\* WindLoads::len: the length of the first load
WindLoads_len(self) == Len(self.loads[1].v)

\* WindLoads::n_sample, for 0 < n_sample <= len (the asserts)
WindLoads_n_sample(self, n_sample) == [self EXCEPT !.n_sample = n_sample]

\* WindLoads::build
WindLoads_build(self) ==
    [n_sample |-> IF self.n_sample > 0 THEN self.n_sample ELSE WindLoads_len(self),
     loads |-> self.tagged_loads]

RECURSIVE select_all(_, _)
select_all(self, tags) ==
    IF tags = <<>> THEN self
    ELSE select_all(WindLoads_select(self, Head(tags)), Tail(tags))

\* the streams a builder call can select
WindTags == {"OSSTopEnd6F", "OSSTruss6F"}

\* the wind load sources of the drivers: streams of one length, all selected
\* or none
DriverWindLoadings ==
    {WindLoads_build(select_all(
        [loads |-> <<[name |-> "OSSTopEnd6F", v |-> Samples(1, n)],
                     [name |-> "OSSTruss6F", v |-> Samples(2, n)]>>,
         n_sample |-> 0,
         tagged_loads |-> <<>>], s)) :
        n \in 0..MaxLoop, s \in {<<>>, <<"OSSTopEnd6F", "OSSTruss6F">>}}

\* #[derive(Default)]
WindLoading_default == [n_sample |-> 0, loads |-> <<>>]

\* a conversion that reads the sample under the cursor without advancing it
IO_next_stuck(io) ==
    IF io.some /\ io.data.pos < Len(io.data.items)
    THEN [io |-> io,
          ret |-> Some(<<IO_with(io.tag, io.data.items[io.data.pos + 1])>>)]
    ELSE [io |-> io, ret |-> None]

\* From<&mut IO<U>> for Option<IO<T>>: the next sample of the stream, if any
IO_next(io) ==
    IF io.some /\ io.data.pos < Len(io.data.items)
    THEN [io |-> [io EXCEPT !.data.pos = @ + 1],
          ret |-> Some(<<IO_with(io.tag, io.data.items[io.data.pos + 1])>>)]
    ELSE [io |-> io, ret |-> None]

\* DOS::outputs: map every stream to its next sample and collect into an
\* Option, which stops at the first stream that yields None
RECURSIVE outputs_collect(_, _, _)
outputs_collect(loads, i, envs) ==
    IF i > Len(loads) THEN [loads |-> loads, ret |-> Some(envs)]
    ELSE LET r == IO_next(loads[i])
         IN  IF r.ret.kind = "none"
             THEN [loads |-> loads, ret |-> None]
             ELSE outputs_collect([loads EXCEPT ![i] = r.io], i + 1, envs \o r.ret.envs)

WindLoading_outputs(self) ==
    LET r == outputs_collect(self.loads, 1, <<>>)
    IN  [self |-> [self EXCEPT !.loads = r.loads], ret |-> r.ret]

(***************************************************************************)
(* TellTale / DataLogging (telltale.rs)                                    *)
(***************************************************************************)
\* DataLogging::new: sampling_rate 1, no keys
DataLogging_new == [sampling_rate |-> 1, keys |-> <<>>]

\* DataLogging::sampling_rate
DataLogging_sampling_rate(self, sampling_rate) ==
    [self EXCEPT !.sampling_rate = sampling_rate]

\* Option<usize>
NoIndex == [some |-> FALSE, v |-> 0]

\* DataLogging::build: no entries, index None; entries is the BTreeMap as a
\* function on its keys
DataLogging_build(self) ==
    [sampling_rate |-> self.sampling_rate,
     keys |-> self.keys,
     entries |-> <<>>,
     index |-> NoIndex]

\* Iterator::next for TellTale: index None -> Some(0), Some(x) -> Some(x + 1)
TellTale_next(self) ==
    [self EXCEPT !.index = IF @.some THEN [some |-> TRUE, v |-> @.v + 1]
                                     ELSE [some |-> TRUE, v |-> 0]]

\* TellTale::step: next() is always Some(())
TellTale_step(self) == [self |-> TellTale_next(self), ret |-> Ok]

\* a push at the front of the list of the current index
push_entry_front(entries, i, tale) ==
    IF i \in DOMAIN entries THEN [entries EXCEPT ![i] = <<tale>> \o @]
    ELSE (i :> <<tale>>) @@ entries

\* entries.entry(i).or_default().push(tale)
push_entry(entries, i, tale) ==
    IF i \in DOMAIN entries THEN [entries EXCEPT ![i] = Append(@, tale)]
    ELSE (i :> <<tale>>) @@ entries

\* TellTale::log
TellTale_log(self, tale) ==
    IF self.index.some
    THEN [self |-> [self EXCEPT !.entries = push_entry(@, self.index.v, tale)],
          ret |-> Ok]
    ELSE [self |-> self, ret |-> Err]

\* data.iter().find_map(|d| if key == *d { d.into() } else { None }): the
\* payload of the first envelope with the tag of key that holds data
RECURSIVE find_tale(_, _)
find_tale(tales, key) ==
    IF tales = <<>> THEN [some |-> FALSE, v |-> <<>>]
    ELSE IF Head(tales).tag = key /\ Head(tales).some
         THEN [some |-> TRUE, v |-> Head(tales).data]
         ELSE find_tale(Tail(tales), key)

\* the keys of the BTreeMap from i on, in increasing order
RECURSIVE keys_from(_, _)
keys_from(entries, i) ==
    IF \A j \in DOMAIN entries : j < i THEN <<>>
    ELSE (IF i \in DOMAIN entries THEN <<i>> ELSE <<>>) \o keys_from(entries, i + 1)

\* TellTale::time_series: one Option<(index * tau, x)> per entry of the map,
\* collected into an Option<Vec<_>>, which is None as soon as one entry
\* yields None; the time index * tau is kept as the fraction index / rate
TellTale_time_series(self, key) ==
    LET ks == keys_from(self.entries, 0)
        found == [n \in 1..Len(ks) |-> find_tale(self.entries[ks[n]], key)]
    IN  IF \A n \in 1..Len(ks) : found[n].some
        THEN IO_with(key, [n \in 1..Len(ks) |->
                             [t |-> [num |-> ks[n], den |-> self.sampling_rate],
                              x |-> found[n].v]])
        ELSE IO_new(key)

\* the envelopes logged and the keys asked for
Tales == {IO_with("OSSM1Lcl", <<0>>), IO_with("OSSM1Lcl", <<1>>), IO_with("MCM2RB6D", <<1>>)}
TaleKeys == {"OSSM1Lcl", "MCM2RB6D"}
SamplingRates == {1, 2}

\* the number of envelopes in the map
RECURSIVE n_tales(_)
n_tales(entries) ==
    IF DOMAIN entries = {} THEN 0
    ELSE LET i == CHOOSE i \in DOMAIN entries : TRUE
         IN  Len(entries[i]) + n_tales([j \in DOMAIN entries \ {i} |-> entries[j]])

(***************************************************************************)
(* The DOS trait (lib.rs): the methods of its implementors, named by impl, *)
(* and its provided methods.  lc is what the update of the controller      *)
(* leaves on its output port; the engine does not use it.                  *)
(***************************************************************************)
DOS_inputs(impl, self, data) ==
    IF impl = "DiscreteModalSolver" THEN DiscreteModalSolver_inputs(self, data)
    ELSE Controller_inputs(self, data)

Iterator_next(impl, self, lc) ==
    IF impl = "DiscreteModalSolver" THEN DiscreteModalSolver_next(self)
    ELSE Controller_next(self, lc)

DOS_outputs(impl, self) ==
    IF impl = "DiscreteModalSolver" THEN DiscreteModalSolver_outputs(self)
    ELSE Controller_outputs(self)

\* DOS::step: self.next().and(Some(self)).ok_or_else(|| DOSError::Step)
DOS_step(impl, self, lc) ==
    LET r == Iterator_next(impl, self, lc)
    IN  [self |-> r.self, ret |-> IF r.ret.kind = "ok" THEN Ok ELSE Err]

\* an in_step_out that goes on to step and outputs whatever inputs returned
DOS_in_step_out_unchecked(impl, self, data, lc) ==
    LET a == DOS_inputs(impl, self, data)
        b == DOS_step(impl, a.self, lc)
    IN  DOS_outputs(impl, b.self)

\* DOS::in_step_out: Ok(self.inputs(data)?.step()?.outputs())
DOS_in_step_out(impl, self, data, lc) ==
    LET a == DOS_inputs(impl, self, data)
    IN  IF a.ret.kind # "ok" THEN a
        ELSE LET b == DOS_step(impl, a.self, lc)
             IN  IF b.ret.kind # "ok" THEN b
                 ELSE DOS_outputs(impl, b.self)

(***************************************************************************)
(* The feedback loops of bin/wind_loading.rs and bin/wind_loading_batch.rs *)
(* A value that goes round the loop is kept as the index of the sample of  *)
(* the engine outputs it was computed from (-1: from none, the initial     *)
(* zeros).  A call that returns a Result may return an error.              *)
(***************************************************************************)
Feedback(from) == [some |-> TRUE, from |-> from]
NoFeedback == [some |-> FALSE, from |-> 0]

\* the M1 controllers run every tenth sample
M1Rate == 10

\* a test that lets the M1 controllers run one sample later
m1_due_late(k) == k % M1Rate = 1

\* a test that lets the M1 controllers run at every sample
m1_due_every(k) == k % 1 = 0

\* if k % 10 == 0
m1_due(k) == k % M1Rate = 0

\* the state of a loop before its first sample: wind_loading.rs starts with
\* mount_drives_cmd = None, wind_loading_batch.rs with zero mount_drives_forces
\* and m1_cg_fm = None
Driver_new(bin) ==
    [bin |-> bin,
     k |-> 0,
     exit |-> "",
     cmd |-> NoFeedback,
     forces |-> IF bin = "wind_loading_batch" THEN Feedback(-1) ELSE NoFeedback,
     hp |-> NoFeedback,
     m1 |-> NoFeedback,
     fem_in |-> [mount |-> NoFeedback, m1 |-> NoFeedback],
     fem_sample |-> -1,
     fem_steps |-> 0,
     ops |-> <<>>]

\* the calls of one sample that follow wind_loading.outputs(), in order
driver_calls(bin, k) ==
    IF bin = "wind_loading"
    THEN <<"data.step", "mnt_drives", "fem", "mnt_ctrl", "data.log", "data.log">>
    ELSE <<"fem", "mnt_ctrl", "mnt_drives">>
         \o (IF m1_due(k) THEN <<"m1_hardpoints", "m1_ctrl">> ELSE <<>>)
         \o <<"data.step", "data.log", "data.log">>

\* the effect of a call that returned Ok
driver_call(d, call) ==
    IF call = "fem"
    THEN [d EXCEPT !.fem_in = [mount |-> d.forces, m1 |-> d.m1],
                   !.fem_sample = d.k,
                   !.fem_steps = @ + 1]
    ELSE IF call = "mnt_ctrl" THEN [d EXCEPT !.cmd = Feedback(d.fem_sample)]
    ELSE IF call = "mnt_drives"
    THEN [d EXCEPT !.forces = IF d.cmd.some THEN Feedback(d.cmd.from) ELSE Feedback(-1)]
    ELSE IF call = "m1_hardpoints" THEN [d EXCEPT !.hp = Feedback(d.fem_sample)]
    ELSE IF call = "m1_ctrl" THEN [d EXCEPT !.m1 = Feedback(d.hp.from)]
    ELSE d

RECURSIVE driver_run(_, _)
driver_run(d, calls) ==
    IF calls = <<>> THEN d ELSE driver_run(driver_call(d, Head(calls)), Tail(calls))

\* a pass that stays in the loop after a call returned an error
driver_sample_retry(d, n, failed) ==
    LET calls == driver_calls(d.bin, d.k)
    IN  IF failed
        THEN [driver_run(d, SubSeq(calls, 1, n - 1)) EXCEPT
                !.ops = <<"wind_loading.outputs">> \o SubSeq(calls, 1, n)]
        ELSE [driver_run(d, calls) EXCEPT
                !.k = @ + 1, !.ops = <<"wind_loading.outputs">> \o calls]

\* one pass of the loop body after the wind loads were fetched: n calls are
\* made; either the last of them returns an error, which ends the loop, or
\* all the calls of the sample are made and k advances
driver_sample(d, n, failed) ==
    LET calls == driver_calls(d.bin, d.k)
        made == SubSeq(calls, 1, n)
    IN  IF failed
        THEN [driver_run(d, SubSeq(calls, 1, n - 1)) EXCEPT
                !.exit = "error", !.ops = <<"wind_loading.outputs">> \o made]
        ELSE [driver_run(d, calls) EXCEPT
                !.k = @ + 1, !.ops = <<"wind_loading.outputs">> \o calls]

Drivers == {Driver_new(bin) : bin \in {"wind_loading", "wind_loading_batch"}}

(***************************************************************************)
(* Inputs of the builder calls                                             *)
(***************************************************************************)
\* the tags selected as inputs: two that match an entry of the FEM and one
\* whose entry is absent from the FEM
BuilderInputTags == {"OSSM1Lcl6F", "OSSAzDriveF", "OSSElDriveF"}

\* the tags selected as outputs: two that match an entry of the FEM and one
\* that no FEM output can match
BuilderOutputTags == {"OSSM1Lcl", "OSSAzDriveD", "M1HPLC"}

\* a call selects no tag or one tag
TagLists(tags) == {<<>>} \cup {<<IO_new(t)>> : t \in tags}

\* a list is extended up to MaxSelected tags, by tags it does not hold yet
MaySelect(opt, v) ==
    /\ Len(opt.v) + Len(v) <= MaxSelected
    /\ \A i \in 1..Len(opt.v), j \in 1..Len(v) : opt.v[i].tag # v[j].tag

\* the override lists: the first mode, the second mode, or a mode past the last
EigenFrequencyLists ==
    {<<[i |-> 0, v |-> 2]>>, <<[i |-> 1, v |-> 2]>>, <<[i |-> fem.n_modes, v |-> 2]>>}

\* the FEM with its eigenfrequencies in decreasing order
fem_unsorted == [fem EXCEPT !.eigen_frequencies = <<2, 1>>]

\* cutoffs in Hz: below the first eigenfrequency, and equal to it
MaxEigenFrequencies == {0, 1}

\* the threshold field has no setter: a builder holds the one it is made with
HankelThresholds == {NoF64, Given(1)}

Builders ==
    {[b EXCEPT !.hankel_singular_values_threshold = t] :
        b \in {DiscreteStateSpace_default, DiscreteStateSpace_from(fem),
                DiscreteStateSpace_from(fem_unsorted)},
        t \in HankelThresholds}

NotBuilt == BuildFailed("none", "")

(***************************************************************************)
(* Initial state: one component, as constructed                            *)
(***************************************************************************)
Init ==
    /\ component \in {"engine", "controller", "wind", "builder", "driver", "telltale"}
    /\ drv \in (IF component = "driver" THEN Drivers ELSE {Driver_new("wind_loading")})
    /\ dss \in (IF component = "builder" THEN Builders ELSE {DiscreteStateSpace_default})
    /\ built = NotBuilt
    /\ fem_ss \in (IF component = "engine"
                   THEN {build(EngineBuilder).engine,
                         build(DiscreteStateSpace_max_eigen_frequency(EngineBuilder, 0)).engine}
                   ELSE {build(EngineBuilder).engine})
    /\ ctrl = Controller_new
    /\ wl \in (IF component = "wind" THEN WindRecords
                                     ELSE {CHOOSE r \in WindRecords : r.loads[1].v = <<>>})
    /\ wind_loading \in (IF component = "driver" THEN DriverWindLoadings
                                                ELSE {WindLoading_default})
    /\ telltale \in (IF component = "telltale"
                     THEN {DataLogging_build(DataLogging_sampling_rate(DataLogging_new, r)) :
                             r \in SamplingRates}
                     ELSE {DataLogging_build(DataLogging_new)})
    /\ last_op = "new"
    /\ arg = <<>>
    /\ result = NoCall
    /\ n_steps = 0
    /\ n_calls = 0
    /\ fed = "nothing"
    /\ twice = FALSE

(***************************************************************************)
(* Engine actions                                                          *)
(***************************************************************************)
EngineInputs ==
    /\ component = "engine"
    /\ \E data \in EngineData :
        LET r == DiscreteModalSolver_inputs(fem_ss, data)
        IN  /\ fem_ss' = r.self
            /\ result' = r.ret
            /\ arg' = data
            /\ fed' = IF fed # "nonzero" /\ \A i \in 1..Len(data) : AllZero(data[i].data)
                      THEN "zeros" ELSE "nonzero"
    /\ last_op' = "inputs"
    /\ twice' = FALSE
    /\ UNCHANGED <<dss, built, drv>>
    /\ UNCHANGED <<wl, telltale, component, ctrl, wind_loading, n_steps, n_calls>>

\* DOS::step: next(), which never fails for the engine
EngineStep ==
    /\ component = "engine"
    /\ n_steps < MaxSteps
    /\ \E schedule \in Schedules(fem_ss) :
          LET r == DiscreteModalSolver_next_par(fem_ss, schedule)
          IN  /\ fem_ss' = r.self
              /\ result' = r.ret
    /\ last_op' = "step"
    /\ arg' = <<>>
    /\ n_steps' = n_steps + 1
    /\ twice' = FALSE
    /\ UNCHANGED <<dss, built, drv>>
    /\ UNCHANGED <<wl, telltale, component, ctrl, wind_loading, n_calls, fed>>

EngineOutputs ==
    /\ component = "engine"
    /\ LET r == DiscreteModalSolver_outputs(fem_ss)
       IN  /\ fem_ss' = r.self
           /\ result' = r.ret
    /\ last_op' = "outputs"
    /\ arg' = <<>>
    /\ twice' = (last_op = "outputs")
    /\ UNCHANGED <<dss, built, drv>>
    /\ UNCHANGED <<wl, telltale, component, ctrl, wind_loading, n_steps, n_calls, fed>>

\* DOS::in_step_out on the engine
EngineInStepOut ==
    /\ component = "engine"
    /\ n_steps < MaxSteps
    /\ \E data \in EngineInStepOutData :
        LET r == DOS_in_step_out("DiscreteModalSolver", fem_ss, data, <<>>)
        IN  /\ fem_ss' = r.self
            /\ result' = r.ret
            /\ arg' = data
            /\ n_steps' = IF r.ret.kind = "some" THEN n_steps + 1 ELSE n_steps
            /\ fed' = IF fed # "nonzero" /\ \A i \in 1..Len(data) : AllZero(data[i].data)
                      THEN "zeros" ELSE "nonzero"
    /\ last_op' = "in_step_out"
    /\ twice' = FALSE
    /\ UNCHANGED <<dss, built, drv>>
    /\ UNCHANGED <<wl, telltale, component, ctrl, wind_loading, n_calls>>

(***************************************************************************)
(* Controller actions                                                      *)
(***************************************************************************)
ControllerInputs ==
    /\ component = "controller"
    /\ result.kind # "panic"
    /\ \E data \in ControllerData :
        LET r == Controller_inputs(ctrl, data)
        IN  /\ ctrl' = r.self
            /\ result' = r.ret
            /\ arg' = data
    /\ last_op' = "inputs"
    /\ twice' = FALSE
    /\ UNCHANGED <<dss, built, drv>>
    /\ UNCHANGED <<wl, telltale, component, fem_ss, wind_loading, n_steps, n_calls, fed>>

\* DOS::step: the filter computes new outputs from its ports and its own state
ControllerStep ==
    /\ component = "controller"
    /\ result.kind # "panic"
    /\ \E lc \in [1..Len(ctrl.m1_hp_lc) -> Values] :
        LET r == Controller_next(ctrl, lc)
        IN  /\ ctrl' = r.self
            /\ result' = r.ret
    /\ last_op' = "step"
    /\ arg' = <<>>
    /\ twice' = FALSE
    /\ UNCHANGED <<dss, built, drv>>
    /\ UNCHANGED <<wl, telltale, component, fem_ss, wind_loading, n_steps, n_calls, fed>>

ControllerOutputs ==
    /\ component = "controller"
    /\ result.kind # "panic"
    /\ LET r == Controller_outputs(ctrl)
       IN  /\ ctrl' = r.self
           /\ result' = r.ret
    /\ last_op' = "outputs"
    /\ arg' = <<>>
    /\ twice' = (last_op = "outputs")
    /\ UNCHANGED <<dss, built, drv>>
    /\ UNCHANGED <<wl, telltale, component, fem_ss, wind_loading, n_steps, n_calls, fed>>

\* DOS::in_step_out on the controller
ControllerInStepOut ==
    /\ component = "controller"
    /\ result.kind # "panic"
    /\ \E data \in ControllerInStepOutData, lc \in [1..Len(ctrl.m1_hp_lc) -> Values] :
        LET r == DOS_in_step_out("Controller", ctrl, data, lc)
        IN  /\ ctrl' = r.self
            /\ result' = r.ret
            /\ arg' = data
    /\ last_op' = "in_step_out"
    /\ twice' = FALSE
    /\ UNCHANGED <<dss, built, drv>>
    /\ UNCHANGED <<wl, telltale, component, fem_ss, wind_loading, n_steps, n_calls, fed>>

(***************************************************************************)
(* Wind load source action                                                 *)
(***************************************************************************)
\* the calls on the builder come before build, those on the source after it
WindBuilt == last_op \in {"build", "outputs"}

\* WindLoads::n_sample, called at most once, with an argument the asserts let
\* through
WindNSample ==
    /\ component = "wind"
    /\ ~WindBuilt
    /\ wl.n_sample = 0
    /\ \E n \in 1..WindLoads_len(wl) : wl' = WindLoads_n_sample(wl, n)
    /\ last_op' = "n_sample"
    /\ UNCHANGED <<telltale, component, fem_ss, ctrl, wind_loading, arg, result,
                   n_steps, n_calls, fed, twice>>
    /\ UNCHANGED <<dss, built, drv>>

\* WindLoads::truss, WindLoads::topend: select a stream (a slice within the
\* stream, or the call panics)
WindSelect ==
    /\ component = "wind"
    /\ ~WindBuilt
    /\ Len(wl.tagged_loads) < MaxSelected
    /\ \E tag \in WindTags :
          /\ wl.n_sample <= load_len(wl, tag)
          /\ wl' = WindLoads_select(wl, tag)
    /\ last_op' = "select"
    /\ UNCHANGED <<telltale, component, fem_ss, ctrl, wind_loading, arg, result,
                   n_steps, n_calls, fed, twice>>
    /\ UNCHANGED <<dss, built, drv>>

\* WindLoads::build
WindBuild ==
    /\ component = "wind"
    /\ ~WindBuilt
    /\ wind_loading' = WindLoads_build(wl)
    /\ last_op' = "build"
    /\ UNCHANGED <<wl, telltale, component, fem_ss, ctrl, arg, result,
                   n_steps, n_calls, fed, twice>>
    /\ UNCHANGED <<dss, built, drv>>

WindOutputs ==
    /\ component = "wind"
    /\ WindBuilt
    /\ n_calls <= MaxSamples
    /\ LET r == WindLoading_outputs(wind_loading)
       IN  /\ wind_loading' = r.self
           /\ result' = r.ret
    /\ last_op' = "outputs"
    /\ n_calls' = n_calls + 1
    /\ twice' = (last_op = "outputs")
    /\ UNCHANGED <<dss, built, drv>>
    /\ UNCHANGED <<wl, telltale, component, fem_ss, ctrl, arg, n_steps, fed>>

(***************************************************************************)
(* Builder actions: the calls consume the builder and return the next one; *)
(* build consumes it for good                                              *)
(***************************************************************************)
BuilderSampling ==
    /\ component = "builder"
    /\ built.kind = "none"
    /\ dss' = DiscreteStateSpace_sampling(dss, 1)
    /\ UNCHANGED <<wl, telltale, component, built, drv>>
    /\ UNCHANGED run_vars

BuilderProportionalDamping ==
    /\ component = "builder"
    /\ built.kind = "none"
    /\ dss' = DiscreteStateSpace_proportional_damping(dss, 2)
    /\ UNCHANGED <<wl, telltale, component, built, drv>>
    /\ UNCHANGED run_vars

BuilderEigenFrequencies ==
    /\ component = "builder"
    /\ built.kind = "none"
    /\ \E l \in EigenFrequencyLists : dss' = DiscreteStateSpace_eigen_frequencies(dss, l)
    /\ UNCHANGED <<wl, telltale, component, built, drv>>
    /\ UNCHANGED run_vars

BuilderMaxEigenFrequency ==
    /\ component = "builder"
    /\ built.kind = "none"
    /\ \E x \in MaxEigenFrequencies : dss' = DiscreteStateSpace_max_eigen_frequency(dss, x)
    /\ UNCHANGED <<wl, telltale, component, built, drv>>
    /\ UNCHANGED run_vars

BuilderInputs ==
    /\ component = "builder"
    /\ built.kind = "none"
    /\ \E v_u \in TagLists(BuilderInputTags) :
        /\ MaySelect(dss.u, v_u)
        /\ dss' = DiscreteStateSpace_inputs(dss, v_u)
    /\ UNCHANGED <<wl, telltale, component, built, drv>>
    /\ UNCHANGED run_vars

BuilderOutputs ==
    /\ component = "builder"
    /\ built.kind = "none"
    /\ \E v_y \in TagLists(BuilderOutputTags) :
        /\ MaySelect(dss.y, v_y)
        /\ dss' = DiscreteStateSpace_outputs(dss, v_y)
    /\ UNCHANGED <<wl, telltale, component, built, drv>>
    /\ UNCHANGED run_vars

BuilderBuild ==
    /\ component = "builder"
    /\ built.kind = "none"
    /\ built' = build(dss)
    /\ UNCHANGED <<wl, telltale, component, dss, drv>>
    /\ UNCHANGED run_vars

(***************************************************************************)
(* Driver action: one pass of the while let loop                           *)
(***************************************************************************)
DriverSample ==
    /\ component = "driver"
    /\ drv.exit = ""
    /\ drv.k <= MaxLoop
    /\ LET r == WindLoading_outputs(wind_loading)
       IN  /\ wind_loading' = r.self
           /\ IF r.ret.kind = "none"
              THEN drv' = [drv EXCEPT !.exit = "none", !.ops = <<"wind_loading.outputs">>]
              ELSE \E n \in 1..Len(driver_calls(drv.bin, drv.k)), failed \in BOOLEAN :
                      /\ ~failed => n = Len(driver_calls(drv.bin, drv.k))
                      /\ drv' = driver_sample(drv, n, failed)
    /\ UNCHANGED <<wl, telltale, component, dss, built>>
    /\ UNCHANGED <<fem_ss, ctrl, last_op, arg, result, n_steps, n_calls, fed, twice>>

(***************************************************************************)
(* Data logger actions                                                     *)
(***************************************************************************)
TellTaleStep ==
    /\ component = "telltale"
    /\ telltale.index.some => telltale.index.v < MaxSteps
    /\ LET r == TellTale_step(telltale)
       IN  /\ telltale' = r.self
           /\ result' = r.ret
    /\ last_op' = "step"
    /\ arg' = <<>>
    /\ UNCHANGED <<wl, component, fem_ss, ctrl, wind_loading, n_steps, n_calls, fed, twice>>
    /\ UNCHANGED <<dss, built, drv>>

TellTaleLog ==
    /\ component = "telltale"
    /\ n_tales(telltale.entries) < MaxTales
    /\ \E tale \in Tales :
          LET r == TellTale_log(telltale, tale)
          IN  /\ telltale' = r.self
              /\ result' = r.ret
              /\ arg' = <<tale>>
    /\ last_op' = "log"
    /\ UNCHANGED <<wl, component, fem_ss, ctrl, wind_loading, n_steps, n_calls, fed, twice>>
    /\ UNCHANGED <<dss, built, drv>>

TellTaleTimeSeries ==
    /\ component = "telltale"
    /\ \E key \in TaleKeys :
          /\ result' = Some(<<TellTale_time_series(telltale, key)>>)
          /\ arg' = <<IO_new(key)>>
    /\ last_op' = "time_series"
    /\ UNCHANGED <<wl, telltale, component, fem_ss, ctrl, wind_loading, n_steps, n_calls, fed, twice>>
    /\ UNCHANGED <<dss, built, drv>>

Next ==
    \/ TellTaleStep
    \/ TellTaleLog
    \/ TellTaleTimeSeries
    \/ DriverSample
    \/ WindNSample
    \/ WindSelect
    \/ WindBuild
    \/ BuilderSampling
    \/ BuilderProportionalDamping
    \/ BuilderEigenFrequencies
    \/ BuilderMaxEigenFrequency
    \/ BuilderInputs
    \/ BuilderOutputs
    \/ BuilderBuild
    \/ EngineInputs
    \/ EngineStep
    \/ EngineOutputs
    \/ EngineInStepOut
    \/ ControllerInputs
    \/ ControllerStep
    \/ ControllerOutputs
    \/ ControllerInStepOut
    \/ WindOutputs

Spec == Init /\ [][Next]_vars

(***************************************************************************)
(* Properties                                                              *)
(***************************************************************************)
\* width and offset of the i-th declared input tag of the engine
DeclWidth(i) == Len(TagIndices(fem.inputs, fem_ss.u_tags[i]))
DeclOffset(i) == SumSeq([j \in 1..(i - 1) |-> DeclWidth(j)])
DeclIndex(tag) == FirstMatch([j \in 1..Len(fem_ss.u_tags) |->
                                [some |-> TRUE, name |-> fem_ss.u_tags[j].tag]],
                             [tag |-> tag])

\* the last envelope of data that carries the tag (0 when there is none)
LastWith(data, tag) ==
    LET hits == {k \in 1..Len(data) : data[k].tag = tag}
    IN  IF hits = {} THEN 0 ELSE CHOOSE k \in hits : \A j \in hits : j <= k

\* the slice of u of the i-th declared tag equals v
SliceIs(u, i, v) ==
    /\ Len(u) >= DeclOffset(i) + DeclWidth(i)
    /\ SubSeq(u, DeclOffset(i) + 1, DeclOffset(i) + DeclWidth(i)) = v

\* every envelope of data carries a payload of the declared width of its tag
WidthsMatch(data) ==
    \A k \in 1..Len(data) :
        data[k].some /\ Len(data[k].data) = DeclWidth(DeclIndex(data[k].tag))

DistinctTags(data) == \A j, k \in 1..Len(data) : data[j].tag = data[k].tag => j = k

EngineInputsOk == component = "engine" /\ last_op = "inputs" /\ result.kind = "ok"

\* C1: after inputs with one envelope per declared tag, in any order, u holds
\* the payloads in the order the tags were declared at build time.
C1_DeclaredOrder ==
    (EngineInputsOk /\ WidthsMatch(arg) /\ DistinctTags(arg)
        /\ Len(arg) = Len(fem_ss.u_tags))
    => \A i \in 1..Len(fem_ss.u_tags) :
          SliceIs(fem_ss.u, i, arg[LastWith(arg, fem_ss.u_tags[i].tag)].data)

\* C2: when the envelopes omit declared tags, the slices of the omitted tags
\* are zero and the slices of the supplied tags hold their payloads.
C2_MissingZeroFill ==
    (EngineInputsOk /\ WidthsMatch(arg) /\ DistinctTags(arg)
        /\ Len(arg) < Len(fem_ss.u_tags))
    => \A i \in 1..Len(fem_ss.u_tags) :
          LET k == LastWith(arg, fem_ss.u_tags[i].tag)
          IN  SliceIs(fem_ss.u, i, IF k = 0 THEN Zeros(DeclWidth(i)) ELSE arg[k].data)

\* C3: when several envelopes of one call carry the same tag, the slice of
\* that tag holds the payload of the last of them.
C3_LastWriterWins ==
    (EngineInputsOk /\ WidthsMatch(arg) /\ ~DistinctTags(arg))
    => \A i \in 1..Len(fem_ss.u_tags) :
          LET k == LastWith(arg, fem_ss.u_tags[i].tag)
          IN  k # 0 => SliceIs(fem_ss.u, i, arg[k].data)

\* declared width of the port of a tag of the controller (0: not an input)
PortWidth(tag) ==
    IF tag = "OSSHardpointD" THEN Len(ctrl.m1_hp_d)
    ELSE IF tag = "M1HPCmd" THEN Len(ctrl.m1_hp_cmd) ELSE 0

\* C4: inputs with a payload whose length differs from the declared width of
\* its tag returns an error, for the engine and for the controller.
C4_WidthMismatchIsError ==
    /\ (component = "engine" /\ last_op = "inputs"
          /\ \E k \in 1..Len(arg) :
                arg[k].some /\ Len(arg[k].data) # DeclWidth(DeclIndex(arg[k].tag)))
       => result.kind = "err"
    /\ (component = "controller" /\ last_op = "inputs"
          /\ \E k \in 1..Len(arg) :
                /\ arg[k].some
                /\ PortWidth(arg[k].tag) # 0
                /\ Len(arg[k].data) # PortWidth(arg[k].tag))
       => result.kind = "err"

\* C5: in every state of the engine, the length of u is the sum of the widths
\* of the declared input tags and the length of y the sum of y_sizes.
C5_BufferLengths ==
    component = "engine"
    => /\ Len(fem_ss.u) = SumSeq([i \in 1..Len(fem_ss.u_tags) |-> DeclWidth(i)])
       /\ Len(fem_ss.y) = SumSeq(fem_ss.y_sizes)

\* offset of the i-th declared output tag in y
OutOffset(i) == SumSeq(SubSeq(fem_ss.y_sizes, 1, i - 1))

\* C6: outputs returns one envelope per declared output tag, in declaration
\* order; the i-th carries the slice of y of length y_sizes[i] that starts at
\* the sum of the preceding sizes; the slices cover y; y is not changed.
C6_OutputsSliceY ==
    [][(component = "engine" /\ last_op' = "outputs")
       => /\ result'.kind = "some"
          /\ Len(result'.envs) = Len(fem_ss.y_tags)
          /\ \A i \in 1..Len(fem_ss.y_tags) :
                /\ result'.envs[i].tag = fem_ss.y_tags[i].tag
                /\ result'.envs[i].some
                /\ result'.envs[i].data =
                      [j \in 1..fem_ss.y_sizes[i] |-> fem_ss.y[OutOffset(i) + j]]
          /\ OutOffset(Len(fem_ss.y_tags) + 1) = Len(fem_ss.y)
          /\ fem_ss'.y = fem_ss.y]_vars

\* an outputs call of the engine on a y whose slices differ
C6_Witness ==
    /\ component = "engine"
    /\ last_op = "outputs"
    /\ Len(result.envs) = Len(fem_ss.y_tags)
    /\ \E i \in 1..Len(fem_ss.y) : fem_ss.y[i] # 0
    /\ \E i \in 1..Len(fem_ss.y) : fem_ss.y[i] # fem_ss.y[1]

\* C7 as stated: for every component, two consecutive outputs calls return
\* equal envelope sequences.
C7_OutputsTwiceEqual ==
    [][(last_op = "outputs" /\ last_op' = "outputs") => result' = result]_vars

\* C7 amended: for the engine and the controller, two consecutive outputs
\* calls return equal envelope sequences.
C7_OutputsTwiceEqualStateful ==
    [][(component \in {"engine", "controller"}
          /\ last_op = "outputs" /\ last_op' = "outputs")
       => result' = result]_vars

\* two outputs calls in a row on an engine whose y is not zero
C7_Witness ==
    /\ component = "engine"
    /\ twice
    /\ result.kind = "some"
    /\ \E i \in 1..Len(fem_ss.y) : fem_ss.y[i] # 0

\* C8: a WindLoading::outputs call returns None as soon as a selected stream
\* has no sample left; otherwise the k-th call returns, in selection order,
\* one envelope per stream with the k-th sample of that stream, and advances
\* the cursor of every stream by one.
C8_WindOutputs ==
    [][(component = "wind" /\ last_op' = "outputs")
       => LET loads == wind_loading.loads
          IN  IF \E i \in 1..Len(loads) : loads[i].data.pos >= Len(loads[i].data.items)
              THEN result' = None
              ELSE /\ result' = Some([i \in 1..Len(loads) |->
                                        IO_with(loads[i].tag, loads[i].data.items[n_calls'])])
                   /\ \A i \in 1..Len(loads) :
                         wind_loading'.loads[i].data.pos = loads[i].data.pos + 1]_vars

\* the second call on two selected streams returned their second samples
C8_Witness ==
    /\ component = "wind"
    /\ n_calls = 2
    /\ result.kind = "some"
    /\ Len(result.envs) = 2

\* C9: as long as every inputs call carried all-zero payloads, y is zero
\* after every step of an engine built with zero mode states.
C9_ZeroInZeroOut ==
    (component = "engine" /\ fed # "nonzero") => AllZero(fem_ss.y)

\* two steps of an engine fed with zeros
C9_Witness ==
    /\ component = "engine"
    /\ fed = "zeros"
    /\ last_op = "step"
    /\ n_steps >= 2

\* C10: an inputs call changes neither the mode states and y of the engine
\* nor the output port of the controller, performs no step, and leaves what
\* outputs returns as it was.
C10_InputsOnlyBuffers ==
    [][(last_op' = "inputs")
       => /\ fem_ss'.state_space = fem_ss.state_space
          /\ fem_ss'.y = fem_ss.y
          /\ DiscreteModalSolver_outputs(fem_ss').ret = DiscreteModalSolver_outputs(fem_ss).ret
          /\ ctrl'.m1_hp_lc = ctrl.m1_hp_lc
          /\ Controller_outputs(ctrl').ret = Controller_outputs(ctrl).ret
          /\ n_steps' = n_steps]_vars

\* an accepted inputs call on an engine whose y is not zero
C10_Witness ==
    /\ component = "engine"
    /\ last_op = "inputs"
    /\ result.kind = "ok"
    /\ arg # <<>>
    /\ \E i \in 1..Len(fem_ss.y) : fem_ss.y[i] # 0

\* C11: in_step_out(data) returns what outputs returns after inputs(data) and
\* step, and leaves the component in the state these three calls leave it in;
\* when inputs fails its error is returned and no step is performed.
C11_InStepOutIsComposition ==
    [][(last_op' = "in_step_out")
       => /\ component = "engine"
             => LET a == DiscreteModalSolver_inputs(fem_ss, arg')
                    b == DiscreteModalSolver_next(a.self)
                    c == DiscreteModalSolver_outputs(b.self)
                IN  IF a.ret.kind = "ok"
                    THEN fem_ss' = c.self /\ result' = c.ret /\ n_steps' = n_steps + 1
                    ELSE /\ fem_ss' = a.self /\ result' = a.ret /\ n_steps' = n_steps
                         /\ fem_ss'.state_space = fem_ss.state_space
                         /\ fem_ss'.y = fem_ss.y
          /\ component = "controller"
             => LET a == Controller_inputs(ctrl, arg')
                IN  IF a.ret.kind = "ok"
                    THEN \E lc \in [1..Len(ctrl.m1_hp_lc) -> Values] :
                            LET b == Controller_next(a.self, lc)
                                c == Controller_outputs(b.self)
                            IN  ctrl' = c.self /\ result' = c.ret
                    ELSE /\ ctrl' = a.self /\ result' = a.ret
                         /\ ctrl'.m1_hp_lc = ctrl.m1_hp_lc]_vars

\* an in_step_out of the engine that returned envelopes of a y that is not zero
C11_Witness ==
    /\ component = "engine"
    /\ last_op = "in_step_out"
    /\ result.kind = "some"
    /\ arg # <<>>
    /\ \E i \in 1..Len(fem_ss.y) : fem_ss.y[i] # 0

\* the builder was consumed by a build call
Built == component = "builder" /\ built.kind # "none"

\* the four mandatory arguments were supplied before the build call
Supplied == dss.sampling.some /\ dss.fem.some /\ dss.u.some /\ dss.y.some

\* the name of the first mandatory argument that was never supplied
FirstMissing ==
    IF ~dss.sampling.some THEN "sampling"
    ELSE IF ~dss.fem.some THEN "FEM"
    ELSE IF ~dss.u.some THEN "inputs"
    ELSE IF ~dss.y.some THEN "outputs" ELSE ""

\* C12: build returns the error MissingArguments naming the first of sampling,
\* FEM, inputs, outputs that was never supplied, and it returns an error and
\* no engine when the supplied input or output tag list is empty.
C12_ConfigurationErrors ==
    Built =>
        /\ ~Supplied => built = BuildFailed("MissingArguments", FirstMissing)
        /\ (Supplied /\ (dss.u.v = <<>> \/ dss.y.v = <<>>)) => built.kind # "ok"

\* the tag matches an entry that is present in the list
Matches(entries, tag) ==
    \E k \in 1..Len(entries) : entries[k].some /\ entries[k].name = tag.tag

Unmatched(entries, tags) == {t \in 1..Len(tags) : ~Matches(entries, tags[t])}

ConcatOn(io) == Flatten([j \in 1..Len(io) |-> IF io[j].on THEN io[j].indices ELSE <<>>])

\* the indices of the entry of the FEM list a selected tag matches
IndicesOf(entries, tag) ==
    ConcatOn(entries[CHOOSE k \in 1..Len(entries) :
                        entries[k].some /\ entries[k].name = tag.tag].io)

CutoffK ==
    IF dss.max_eigen_frequency.some
    THEN Cardinality({k \in 1..dss.fem.v.n_modes :
                        dss.fem.v.eigen_frequencies[k] <= dss.max_eigen_frequency.v})
    ELSE dss.fem.v.n_modes

\* the modes an engine built without cutoff and without threshold holds
AllModes ==
    build([dss EXCEPT !.max_eigen_frequency = NoF64,
                      !.hankel_singular_values_threshold = NoF64]).engine.state_space

\* C15: before the Hankel pruning build keeps the first K modes of the FEM,
\* K being the number of modes whose eigenfrequency is less than or equal to
\* the cutoff, and all the modes when there is no cutoff.
C15_CutoffKeepsFirstK ==
    (Built /\ built.kind = "ok") =>
        /\ built.n_modes = CutoffK
        /\ ~dss.hankel_singular_values_threshold.some
           => built.engine.state_space = SubSeq(AllModes, 1, CutoffK)

\* an engine built with a cutoff equal to the first eigenfrequency: one mode
\* of two is kept
C15_Witness ==
    /\ Built
    /\ built.kind = "ok"
    /\ dss.max_eigen_frequency = Given(1)
    /\ ~dss.hankel_singular_values_threshold.some
    /\ Len(built.engine.state_space) = 1
    /\ dss.u.v # <<>> /\ dss.y.v # <<>>

\* C16: with a cutoff below the smallest eigenfrequency of the FEM build
\* returns an engine without modes whose y has the declared output length,
\* and y is all zeros after every step of such an engine.
C16_EmptyEngine ==
    /\ (Built /\ Supplied /\ built.kind # "panic"
          /\ Unmatched(dss.fem.v.inputs, dss.u.v) = {}
          /\ Unmatched(dss.fem.v.outputs, dss.y.v) = {}
          /\ dss.max_eigen_frequency.some
          /\ \A k \in 1..dss.fem.v.n_modes :
                dss.max_eigen_frequency.v < dss.fem.v.eigen_frequencies[k])
       => /\ built.kind = "ok"
          /\ built.engine.state_space = <<>>
          /\ built.engine.y = Zeros(SumSeq(built.engine.y_sizes))
          /\ Len(built.engine.y) =
                SumSeq([t \in 1..Len(dss.y.v) |-> Len(IndicesOf(dss.fem.v.outputs, dss.y.v[t]))])
    /\ (component = "engine" /\ fem_ss.state_space = <<>>)
       => /\ AllZero(fem_ss.y)
          /\ Len(fem_ss.y) = SumSeq(fem_ss.y_sizes)

\* a step of an engine without modes after inputs that were not zero
C16_Witness ==
    /\ component = "engine"
    /\ fem_ss.state_space = <<>>
    /\ Len(fem_ss.y) = 3
    /\ fed = "nonzero"
    /\ last_op = "step"
    /\ \E i \in 1..Len(fem_ss.u) : fem_ss.u[i] # 0

\* sigma_k > t for mode k of the FEM, with the b and c of the mode, the angular
\* frequency and the damping coefficient the build used
SigmaExceeds(k) ==
    LET m == AllModes[k]
        d == built.w[k] * built.zeta[k] * dss.hankel_singular_values_threshold.v
    IN  d * d < 360 * 360 * norm2(m.b) * norm2(m.c)

\* the modes among the first n that pass the test, in their order
RECURSIVE KeptOf(_, _)
KeptOf(n, k) ==
    IF k > n THEN <<>>
    ELSE (IF SigmaExceeds(k) THEN <<AllModes[k]>> ELSE <<>>) \o KeptOf(n, k + 1)

\* C17: with a threshold t build keeps, in their order, the modes among the K
\* retained by the cutoff whose sigma = |b| |c| / (4 w zeta) is strictly
\* greater than t; without threshold it keeps the K modes.
C17_HankelPruning ==
    (Built /\ built.kind = "ok") =>
        IF dss.hankel_singular_values_threshold.some
        THEN built.engine.state_space = KeptOf(CutoffK, 1)
        ELSE Len(built.engine.state_space) = CutoffK

\* a pruning that drops the first mode and keeps the second
C17_Witness ==
    /\ Built
    /\ built.kind = "ok"
    /\ dss.hankel_singular_values_threshold.some
    /\ built.n_modes = 2
    /\ Len(built.engine.state_space) = 1
    /\ built.engine.state_space[1] = AllModes[2]
    /\ AllModes[1] # AllModes[2]

\* C18: an override (i, f) stores 2 pi f as the angular frequency of mode i,
\* the conversion applied to the eigenfrequencies of the FEM, and the angular
\* frequencies of the other modes are those of the FEM.
C18_OverrideInHz ==
    (Built /\ built.kind = "ok" /\ dss.eigen_frequencies.some) =>
        \A k \in 1..dss.fem.v.n_modes :
            LET over == {j \in 1..Len(dss.eigen_frequencies.v) :
                            dss.eigen_frequencies.v[j].i + 1 = k}
            IN  IF over = {}
                THEN built.w[k] = 360 * dss.fem.v.eigen_frequencies[k]
                ELSE \E j \in over : built.w[k] = 360 * dss.eigen_frequencies.v[j].v

\* a declared input tag of the controller has an envelope with a payload in data
Present(data, tag) == \E k \in 1..Len(data) : data[k].tag = tag /\ data[k].some

\* C19: inputs of the controller returns an error when a declared input tag
\* has no envelope with a payload in data, whatever else data holds, and
\* returns Ok when every declared input tag has one.
C19_AllInputsRequired ==
    (component = "controller" /\ last_op = "inputs" /\ result.kind # "panic")
    => IF \A t \in 1..Len(Controller_inputs_tags) : Present(arg, Controller_inputs_tags[t].tag)
       THEN result.kind = "ok"
       ELSE result.kind = "err"

\* the engine was called at sample s of a driver loop
EngineCalled(s) == component = "driver" /\ drv.fem_steps > 0 /\ drv.fem_sample = s

\* C20 as stated: every controller output that enters the engine at sample
\* k + 1 was computed from the engine outputs of sample k, and what enters at
\* sample 0 comes from the initial zeros (sample -1) only.
C20_FeedbackDelay ==
    \A s \in 0..(MaxLoop + 1) :
        EngineCalled(s) =>
            /\ drv.fem_in.mount.some => drv.fem_in.mount.from = s - 1
            /\ drv.fem_in.m1.some => drv.fem_in.m1.from = s - 1

\* C20 amended: the mount controller outputs that enter the engine at sample
\* k + 1 were computed from the engine outputs of sample k (from the initial
\* zeros at sample 0); the M1 controller output that enters at sample k + 1
\* was computed from the engine outputs of the last sample j <= k with
\* j mod 10 = 0, and none enters at sample 0; nothing that enters at sample
\* k was computed from the engine outputs of sample k.
C20_FeedbackDelayRateDivided ==
    \A s \in 0..(MaxLoop + 1) :
        EngineCalled(s) =>
            /\ drv.fem_in.mount.some => drv.fem_in.mount.from = s - 1
            /\ drv.fem_in.m1.some
               => /\ s > 0
                  /\ drv.fem_in.m1.from = M1Rate * ((s - 1) \div M1Rate)
            /\ drv.fem_in.mount.some => drv.fem_in.mount.from < s
            /\ drv.fem_in.m1.some => drv.fem_in.m1.from < s

\* the engine call of sample 2 of the rate-divided loop: the mount feedback
\* comes from sample 1, the M1 feedback from sample 0
C20_Witness ==
    /\ EngineCalled(2)
    /\ drv.bin = "wind_loading_batch"
    /\ drv.fem_in.mount = Feedback(1)
    /\ drv.fem_in.m1 = Feedback(0)

\* the calls that step a controller, and the position of a call in a sample
ControllerCalls == {"mnt_ctrl", "mnt_drives", "m1_hardpoints", "m1_ctrl"}

\* C21: within a sample of a driver loop the wind loads are fetched first,
\* every controller step comes after the engine step of the sample, and the
\* log of the sample comes after its controller steps.
C21_SerialOrder ==
    (component = "driver" /\ drv.ops # <<>>) =>
        /\ drv.ops[1] = "wind_loading.outputs"
        /\ \A i, j \in DOMAIN drv.ops :
              /\ (drv.ops[i] = "fem" /\ drv.ops[j] \in ControllerCalls) => i < j
              /\ (drv.ops[i] \in ControllerCalls /\ drv.ops[j] = "data.log") => i < j

\* the load of the record that the tag names
StreamOf(tag) ==
    LET k == CHOOSE k \in 1..Len(wl.loads) : wl.loads[k].name = tag
    IN  wl.loads[k].v

\* C24: a WindLoading built after n_sample(N), N at most the length of the
\* loads of the record, and the selection of at least one stream, the calls
\* in any order, has n_sample = N and holds the first N
\* samples of every selected stream; its k-th outputs call returns the k-th
\* samples for k <= N and None after that.
C24_NSampleAnyOrder ==
    (/\ component = "wind" /\ WindBuilt
     /\ wl.n_sample > 0 /\ wl.tagged_loads # <<>>
     /\ \A k \in 1..Len(wl.loads) : wl.n_sample <= Len(wl.loads[k].v)) =>
        LET N == wl.n_sample
            loads == wind_loading.loads
        IN  /\ wind_loading.n_sample = N
            /\ \A i \in 1..Len(loads) :
                  loads[i].data.items = SubSeq(StreamOf(loads[i].tag), 1, N)
            /\ last_op = "outputs" =>
                  IF n_calls <= N
                  THEN result = Some([i \in 1..Len(loads) |->
                                        IO_with(loads[i].tag, StreamOf(loads[i].tag)[n_calls])])
                  ELSE result = None

\* the sample of the last pass of the loop (k advances when a pass completes)
PassSample == IF drv.exit = "" THEN drv.k - 1 ELSE drv.k

Made(call) == \E i \in DOMAIN drv.ops : drv.ops[i] = call

\* C22: in the rate-divided driver a pass steps the M1 hardpoint and CG
\* controllers only at a sample k with k mod 10 = 0, and a pass that
\* completes at such a sample steps both; at any other sample the engine
\* input holds the M1 output computed at the last sample that is a multiple
\* of 10.
C22_RateDivision ==
    (component = "driver" /\ drv.bin = "wind_loading_batch" /\ drv.ops # <<>>) =>
        /\ (Made("m1_hardpoints") \/ Made("m1_ctrl")) => PassSample % 10 = 0
        /\ (drv.exit = "" /\ PassSample % 10 = 0)
                => (Made("m1_hardpoints") /\ Made("m1_ctrl"))
        /\ (Made("fem") /\ drv.fem_sample = PassSample /\ PassSample % 10 # 0)
                => drv.fem_in.m1 = Feedback(10 * (PassSample \div 10))

\* the pass of sample 11: the M1 controllers were stepped at sample 10 and
\* are not stepped now, the engine input holds their output of sample 10
C22_Witness ==
    /\ component = "driver"
    /\ drv.bin = "wind_loading_batch"
    /\ drv.exit = ""
    /\ drv.k = 12
    /\ ~Made("m1_ctrl")
    /\ drv.fem_in.m1 = Feedback(10)

\* C23: a driver makes one engine step for each sample the wind load source
\* yields, unless a call of that pass returns an error; it leaves the loop
\* when the source returns None, without any step in that pass, or when a
\* call returns an error, without any call after it; once the loop is left
\* nothing is stepped.
C23_OneStepPerSample ==
    [][component = "driver" =>
        IF drv.exit # "" THEN drv' = drv /\ wind_loading' = wind_loading
        ELSE drv' # drv =>
          IF WindLoading_outputs(wind_loading).ret.kind = "none"
          THEN /\ drv'.exit = "none"
               /\ drv'.ops = <<"wind_loading.outputs">>
               /\ drv'.fem_steps = drv.fem_steps
               /\ drv'.k = drv.k
          ELSE LET calls == <<"wind_loading.outputs">> \o driver_calls(drv.bin, drv.k)
                   engine == {i \in DOMAIN drv'.ops : drv'.ops[i] = "fem"}
               IN  \/ /\ drv'.exit = ""
                      /\ drv'.ops = calls
                      /\ Cardinality(engine) = 1
                      /\ drv'.fem_steps = drv.fem_steps + 1
                      /\ drv'.k = drv.k + 1
                   \/ /\ drv'.exit = "error"
                      /\ drv'.ops = SubSeq(calls, 1, Len(drv'.ops))
                      /\ drv'.fem_steps <= drv.fem_steps + 1
                      /\ drv'.k = drv.k]_vars

\* a loop left when the source ran out after three samples, three engine
\* steps made
C23_Witness ==
    /\ component = "driver"
    /\ drv.exit = "none"
    /\ wind_loading.loads # <<>>
    /\ drv.k = 3
    /\ drv.fem_steps = 3

\* C25: the first TellTale::step sets the index to 0 and every later one
\* adds one, leaving the map as it is; a log after a step appends the
\* envelope at the end of the list of the current index and leaves the lists
\* of the other indices as they are; a log before the first step returns an
\* error and leaves the map as it is.
C25_TellTaleMap ==
    [][component = "telltale" =>
        /\ last_op' = "step" =>
              /\ telltale'.index = IF telltale.index.some
                                   THEN [some |-> TRUE, v |-> telltale.index.v + 1]
                                   ELSE [some |-> TRUE, v |-> 0]
              /\ telltale'.entries = telltale.entries
        /\ (last_op' = "log" /\ telltale.index.some) =>
              LET i == telltale.index.v
                  before == IF i \in DOMAIN telltale.entries
                            THEN telltale.entries[i] ELSE <<>>
              IN  /\ result' = Ok
                  /\ telltale'.index = telltale.index
                  /\ DOMAIN telltale'.entries = DOMAIN telltale.entries \cup {i}
                  /\ telltale'.entries[i] = Append(before, arg'[1])
                  /\ \A j \in DOMAIN telltale.entries \ {i} :
                        telltale'.entries[j] = telltale.entries[j]
        /\ (last_op' = "log" /\ ~telltale.index.some) =>
              /\ result' = Err
              /\ telltale' = telltale]_vars

\* two envelopes logged at index 1 after one was logged at index 0
C25_Witness ==
    /\ component = "telltale"
    /\ last_op = "log"
    /\ telltale.index = [some |-> TRUE, v |-> 1]
    /\ DOMAIN telltale.entries = {0, 1}
    /\ Len(telltale.entries[1]) = 2
    /\ telltale.entries[1][1] # telltale.entries[1][2]

\* the sample indices at which an envelope with the tag key was logged, from
\* i on, in increasing order
RECURSIVE LoggedAt(_, _)
LoggedAt(key, i) ==
    IF \A j \in DOMAIN telltale.entries : j < i THEN <<>>
    ELSE (IF /\ i \in DOMAIN telltale.entries
             /\ \E n \in DOMAIN telltale.entries[i] : telltale.entries[i][n].tag = key
          THEN <<i>> ELSE <<>>) \o LoggedAt(key, i + 1)

\* C26: time_series(key) returns the tag key with one pair
\* (index / sampling_rate, vector) for every sample index at which an
\* envelope with the tag key was logged, in increasing index order, the
\* vector being the payload of the first such envelope of that index;
\* the other indices contribute no pair.
C26_TimeSeries ==
    (component = "telltale" /\ last_op = "time_series") =>
        LET key == arg[1].tag
            at == LoggedAt(key, 0)
            series == result.envs[1]
        IN  /\ series.tag = key
            /\ series.some
            /\ Len(series.data) = Len(at)
            /\ \A n \in 1..Len(at) :
                  /\ series.data[n].t = [num |-> at[n], den |-> telltale.sampling_rate]
                  /\ \E m \in DOMAIN telltale.entries[at[n]] :
                        /\ telltale.entries[at[n]][m].tag = key
                        /\ telltale.entries[at[n]][m].data = series.data[n].x

\* the sum over the modes from k on of the i-th output of solve
RECURSIVE SumOfModes(_, _, _)
SumOfModes(self, i, k) ==
    IF k > Len(self.state_space) THEN 0
    ELSE solve(self.state_space[k], self.u).y[i] + SumOfModes(self, i, k + 1)

\* C27: under every split of the modes among the workers and either order
\* of combining the partial sums, one engine step leaves in y the sum over
\* all modes of the output of each mode, advances every mode once, from its
\* own state and u only, and leaves u as it is.
C27_ParallelStep ==
    [][(component = "engine" /\ last_op' = "step") =>
         \A schedule \in Schedules(fem_ss) :
            LET r == DiscreteModalSolver_next_par(fem_ss, schedule).self
            IN  /\ fem_ss' = r
                /\ r.y = [i \in 1..Len(fem_ss.y) |-> SumOfModes(fem_ss, i, 1)]
                /\ \A k \in 1..Len(fem_ss.state_space) :
                      r.state_space[k] = solve(fem_ss.state_space[k], fem_ss.u).m
                /\ r.u = fem_ss.u]_vars

\* a step of an engine of two modes that left a y that is not zero
C27_Witness ==
    /\ component = "engine"
    /\ last_op = "step"
    /\ Len(fem_ss.state_space) = 2
    /\ \E i \in 1..Len(fem_ss.y) : fem_ss.y[i] # 0

\* C28: an inputs call of the controller that returns an error leaves the
\* input ports of the controller as they were.
C28_RejectedInputsWriteNothing ==
    [][(component = "controller" /\ last_op' = "inputs" /\ result' = Err) =>
         /\ ctrl'.m1_hp_d = ctrl.m1_hp_d
         /\ ctrl'.m1_hp_cmd = ctrl.m1_hp_cmd]_vars

\* the samples left in the streams of a WindLoading, from stream i on
RECURSIVE Remaining(_, _)
Remaining(self, i) ==
    IF i > Len(self.loads) THEN 0
    ELSE (Len(self.loads[i].data.items) - self.loads[i].data.pos) + Remaining(self, i + 1)

\* C29: every outputs call of a WindLoading that returns Some leaves fewer
\* samples in the streams than there were, so that repeated calls reach None
\* (the streams are finite), and a call that follows one that returned None
\* returns None.
C29_WindTerminates ==
    [][(component = "wind" /\ last_op' = "outputs") =>
         /\ result'.kind = "some"
               => Remaining(wind_loading', 1) < Remaining(wind_loading, 1)
         /\ (last_op = "outputs" /\ result = None) => result' = None]_vars

\* the eigenfrequency in Hz a build gives mode k: that of the last override
\* of the mode, or that of the FEM
Effective(k) ==
    LET over == {j \in 1..Len(dss.eigen_frequencies.v) :
                    dss.eigen_frequencies.v[j].i + 1 = k}
    IN  IF dss.eigen_frequencies.some /\ over # {}
        THEN dss.eigen_frequencies.v[CHOOSE j \in over : \A l \in over : l <= j].v
        ELSE dss.fem.v.eigen_frequencies[k]

\* C30: after a build with a cutoff, every mode the engine holds has an
\* effective eigenfrequency, that of the FEM or its override, at most the
\* cutoff.
C30_ModesWithinCutoff ==
    (Built /\ built.kind = "ok" /\ dss.max_eigen_frequency.some) =>
        \A k \in 1..built.n_modes : Effective(k) <= dss.max_eigen_frequency.v

====
